---------------------------- MODULE Spec2Model ----------------------------
(***************************************************************************)
(* A model of xmas_tool.py: the layered character-grid compositor          *)
(* (Canvas, Cell, CanvasElement) and the shape builders (Box, XmasTree).   *)
(*                                                                         *)
(* Python lists are sequences; a Python index i of a list is position i+1  *)
(* of the sequence.  A dict is a sequence of <<key, value>> entries in     *)
(* insertion order, which is the order dict.items() yields.                *)
(***************************************************************************)
EXTENDS Integers, Sequences, FiniteSets

VARIABLES
    nrows,      \* Canvas.nrows
    ncols,      \* Canvas.ncols
    elements,   \* Canvas.elements: the dict, as its entries in insertion order
    nextId,     \* the ids uuid.uuid4() has handed out so far are 1..nextId-1
    ret,        \* what the last call returned or raised
    heap,       \* the CanvasElement objects SpecMerge has constructed
    box,        \* a Box: its constructor's arguments and its cell_list
    tree        \* an XmasTree: its fields and where its constructor stands

vars == <<nrows, ncols, elements, nextId, ret, heap, box, tree>>

-----------------------------------------------------------------------------
(* Bounds of the model *)

\* the most entries the canvas holds in Spec and SpecRender
MaxElements == 3
\* the longest cell_list a CanvasElement is constructed with
MaxCells == 1
\* the most cells the elements of the canvas of SpecClip hold together
MaxClipCells == 2
\* the most CanvasElement objects SpecMerge constructs
MaxHeap == 3
\* the largest row or column a Box of SpecBox is constructed with
MaxBox == 4
\* the tallest XmasTree of SpecTree
MaxTreeHeight == 4
\* the tallest XmasTree of SpecTreeBuild, and its largest start row or column
MaxBuildHeight == 6
MaxStart == 3

\* the z values elements are constructed with
ZValues == {1, 2}
\* the display characters cells are constructed with
Chars == {"a", "b"}
BLANK == " "

-----------------------------------------------------------------------------
(* Cell, CanvasElement *)

Cell(x, y, c) == [x |-> x, y |-> y, c |-> c]

\* in_bounds without its two lower bounds
in_bounds_upper_only(cell, nr, nc) ==
    IF cell.x < nr /\ cell.y < nc THEN TRUE ELSE FALSE

\* Cell.in_bounds
in_bounds(cell, nr, nc) ==
    IF cell.x >= 0 /\ cell.x < nr /\ cell.y >= 0 /\ cell.y < nc
    THEN TRUE
    ELSE FALSE

\* CanvasElement.__init__, the id being the one uuid4 hands out
CanvasElement(id, z, cell_list) == [id |-> id, z |-> z, cell_list |-> cell_list]

-----------------------------------------------------------------------------
(* Python's list indexing and dict operations *)

\* whether list[i] is an index error for a list of length n
IndexError(i, n) == i >= n \/ i < -n

\* the position list[i] names: a negative index counts from the end
PyIndex(i, n) == IF i < 0 THEN i + n + 1 ELSE i + 1

Keys(d) == {d[k][1] : k \in 1..Len(d)}

KeyPos(d, key) == CHOOSE k \in 1..Len(d) : d[k][1] = key

\* d[key] = value: a new key goes last, an old key keeps its place
DictSet(d, key, value) ==
    IF key \in Keys(d)
    THEN [d EXCEPT ![KeyPos(d, key)] = <<key, value>>]
    ELSE Append(d, <<key, value>>)

\* [e for k, e in d.items()]
Values(d) == [k \in 1..Len(d) |-> d[k][2]]

-----------------------------------------------------------------------------
(* Canvas.render *)

\* the grid with rows and columns taken for each other
BlankCanvasSwapped(nr, nc) == [i \in 1..nc |-> [j \in 1..nr |-> BLANK]]

\* [[' ' for _ in range(ncols)] for _ in range(nrows)]
BlankCanvas(nr, nc) == [i \in 1..nr |-> [j \in 1..nc |-> BLANK]]

\* an insertion that puts e before the elements of its own z
RECURSIVE InsertBeforeEqualZ(_, _)
InsertBeforeEqualZ(sorted, e) ==
    IF sorted = <<>> THEN <<e>>
    ELSE IF sorted[Len(sorted)].z < e.z THEN Append(sorted, e)
    ELSE Append(InsertBeforeEqualZ(SubSeq(sorted, 1, Len(sorted) - 1), e),
                sorted[Len(sorted)])

\* sorted(list, key=lambda elem: elem.z): stable, ascending.
\* InsertByZ puts e behind every element whose z is not larger.
RECURSIVE InsertByZ(_, _)
InsertByZ(sorted, e) ==
    IF sorted = <<>> THEN <<e>>
    ELSE IF sorted[Len(sorted)].z <= e.z THEN Append(sorted, e)
    ELSE Append(InsertByZ(SubSeq(sorted, 1, Len(sorted) - 1), e),
                sorted[Len(sorted)])

\* element_list without the sort: the mapping's own order
UnsortedByZ(list) == list

RECURSIVE SortedByZ(_)
SortedByZ(list) ==
    IF list = <<>> THEN <<>>
    ELSE InsertByZ(SortedByZ(SubSeq(list, 1, Len(list) - 1)), list[Len(list)])

\* canvas[cell.x][cell.y] = cell.c on a painting state [raised, canvas]
SetItem(st, cell) ==
    IF st.raised # "none" THEN st
    ELSE IF IndexError(cell.x, Len(st.canvas)) THEN [st EXCEPT !.raised = "IndexError"]
    ELSE IF IndexError(cell.y, Len(st.canvas[PyIndex(cell.x, Len(st.canvas))]))
         THEN [st EXCEPT !.raised = "IndexError"]
    ELSE LET r == PyIndex(cell.x, Len(st.canvas))
             c == PyIndex(cell.y, Len(st.canvas[r]))
         IN  [st EXCEPT !.canvas[r][c] = cell.c]

\* the inner loop of render over one element's cell_list, from cell k on
RECURSIVE PaintCells(_, _, _, _, _)
PaintCells(st, cell_list, k, nr, nc) ==
    IF k > Len(cell_list) THEN st
    ELSE IF ~in_bounds(cell_list[k], nr, nc)
         THEN PaintCells(st, cell_list, k + 1, nr, nc)
    ELSE PaintCells(SetItem(st, cell_list[k]), cell_list, k + 1, nr, nc)

\* the outer loop of render over element_list, from element k on
RECURSIVE PaintElements(_, _, _, _, _)
PaintElements(st, element_list, k, nr, nc) ==
    IF k > Len(element_list) THEN st
    ELSE PaintElements(PaintCells(st, element_list[k].cell_list, 1, nr, nc),
                       element_list, k + 1, nr, nc)

\* Canvas.render as a function of the canvas' fields
Render(d, nr, nc) ==
    PaintElements([raised |-> "none", canvas |-> BlankCanvas(nr, nc)],
                  SortedByZ(Values(d)), 1, nr, nc)

-----------------------------------------------------------------------------
(* The canvas and the calls on it *)

\* the cells the elements of Spec and SpecRender are built from
Cells == {Cell(0, 0, c) : c \in Chars}

RECURSIVE SeqsUpTo(_, _)
SeqsUpTo(S, n) ==
    IF n = 0 THEN {<<>>}
    ELSE LET shorter == SeqsUpTo(S, n - 1)
         IN  shorter \cup {Append(s, x) : s \in shorter, x \in S}

\* the elements constructed now: uuid4 hands out nextId
FreshElements(zs, cell_lists) ==
    {CanvasElement(nextId, z, cl) : z \in zs, cl \in cell_lists}

Registered == {elements[k][2] : k \in 1..Len(elements)}

\* the other parts of the program, left alone by the calls on the canvas
Idle == <<>>
OthersIdle == heap = Idle /\ box = Idle /\ tree = Idle

\* Canvas.__init__
CanvasInit(nr, nc) ==
    /\ nrows = nr
    /\ ncols = nc
    /\ elements = <<>>
    /\ nextId = 1
    /\ ret = [op |-> "init", raised |-> "none"]

\* Canvas.upsert
Upsert(canvas_element) ==
    /\ elements' = DictSet(elements, canvas_element.id, canvas_element)
    /\ nextId' = IF canvas_element.id = nextId THEN nextId + 1 ELSE nextId
    /\ ret' = [op |-> "upsert", raised |-> "none", id |-> canvas_element.id]
    /\ UNCHANGED <<nrows, ncols, heap, box, tree>>

\* Canvas.remove: its body reads `element`, a name bound neither in the
\* method nor in the module, so its first line raises NameError
Remove(canvas_element) ==
    /\ ret' = [op |-> "remove", raised |-> "NameError", returned |-> "nothing",
               id |-> canvas_element.id,
               present |-> canvas_element.id \in Keys(elements)]
    /\ UNCHANGED <<nrows, ncols, elements, nextId, heap, box, tree>>

\* self.elements.get(name, None); None is the empty sequence here
get_element(d, name) ==
    IF name \in Keys(d) THEN <<d[KeyPos(d, name)][2]>> ELSE <<>>

\* Canvas.get_element
GetElement(name) ==
    /\ ret' = [op |-> "get_element", raised |-> "none", id |-> name,
               value |-> get_element(elements, name)]
    /\ UNCHANGED <<nrows, ncols, elements, nextId, heap, box, tree>>

\* Canvas.render
DoRender ==
    /\ LET r == Render(elements, nrows, ncols)
       IN  ret' = [op |-> "render", raised |-> r.raised, canvas |-> r.canvas]
    /\ UNCHANGED <<nrows, ncols, elements, nextId, heap, box, tree>>

\* the canvas size Spec and SpecRender start from
Shape == <<1, 2>>

Init ==
    /\ CanvasInit(Shape[1], Shape[2])
    /\ OthersIdle

\* an element is upserted when it is constructed, or again later
UpsertSome ==
    \E e \in FreshElements(ZValues, SeqsUpTo(Cells, MaxCells)) \cup Registered :
        /\ e.id \in Keys(elements) \/ Len(elements) < MaxElements
        /\ Upsert(e)

RemoveSome ==
    \E e \in FreshElements(ZValues, {<<>>}) \cup Registered : Remove(e)

GetSome ==
    \E name \in Keys(elements) \cup {nextId} : GetElement(name)

\* every call on the canvas
Next == UpsertSome \/ RemoveSome \/ GetSome \/ DoRender

Spec == Init /\ [][Next]_vars

\* the calls of a frame: upserts and render
NextRender == UpsertSome \/ DoRender

SpecRender == Init /\ [][NextRender]_vars

-----------------------------------------------------------------------------
(* Clipping: canvases of several sizes, cells inside and outside of them *)

ClipShapes == {<<1, 1>>, <<2, 3>>}

\* rows and columns before, at and behind the canvas' edges
ClipCells(nr, nc) ==
    {Cell(x, y, c) : x \in {-1, 0, nr}, y \in {-1, 0, nc}, c \in Chars}

RECURSIVE SumLen(_)
SumLen(list) ==
    IF list = <<>> THEN 0
    ELSE Len(list[1].cell_list) + SumLen(Tail(list))

InitClip ==
    /\ \E shape \in ClipShapes : CanvasInit(shape[1], shape[2])
    /\ OthersIdle

\* the cells the canvas still has room for, within MaxClipCells
ClipRoom == MaxClipCells - SumLen(Values(elements))

UpsertClip ==
    \E e \in FreshElements({1}, SeqsUpTo(ClipCells(nrows, ncols), ClipRoom)
                                  \ {<<>>})
            \cup Registered :
        Upsert(e)

NextClip == UpsertClip \/ DoRender

SpecClip == InitClip /\ [][NextClip]_vars

-----------------------------------------------------------------------------
(* Properties of the canvas *)

\* the positions of a canvas, as Python indices
GridPositions == (0..(nrows - 1)) \X (0..(ncols - 1))

\* the indices of e's cells at position p, p being inside the canvas
CellsAt(e, p) ==
    {k \in 1..Len(e.cell_list) : e.cell_list[k].x = p[1] /\ e.cell_list[k].y = p[2]}

CoversAt(e, p) == CellsAt(e, p) # {}

\* the character of the last of e's cells at p
LastCharAt(e, p) ==
    LET k == CHOOSE i \in CellsAt(e, p) : \A j \in CellsAt(e, p) : j <= i
    IN  e.cell_list[k].c

\* A and B are the only registered elements with a cell at p
OnlyCovers(A, B, p) ==
    /\ A \in Registered /\ B \in Registered /\ A # B
    /\ CoversAt(A, p) /\ CoversAt(B, p)
    /\ \A C \in Registered \ {A, B} : ~CoversAt(C, p)

\* the character render returned at p
CanvasAt(canvas, p) == canvas[p[1] + 1][p[2] + 1]

Rendered == ret.op = "render"

\* C1: where two registered elements A and B with A.z < B.z are the only
\* ones with a cell at an in-bounds position, render returns B's character
\* there, in whichever order the two were upserted.
C1_HigherZWins ==
    Rendered =>
        /\ ret.raised = "none"
        /\ \A A \in Registered, B \in Registered, p \in GridPositions :
              (OnlyCovers(A, B, p) /\ A.z < B.z)
                  => CanvasAt(ret.canvas, p) = LastCharAt(B, p)

\* C1's case: B has the higher z, was upserted before A, and the two
\* paint different characters at p.
C1_Witness ==
    /\ Rendered
    /\ \E A \in Registered, B \in Registered, p \in GridPositions :
          /\ OnlyCovers(A, B, p) /\ A.z < B.z
          /\ KeyPos(elements, B.id) < KeyPos(elements, A.id)
          /\ LastCharAt(A, p) # LastCharAt(B, p)

\* C2 as stated: of two elements of equal z that are the only ones with a
\* cell at an in-bounds position, the one that was upserted later is the one
\* render shows.  Right after upsert(A), A is the element upserted later
\* than every other one.
C2_LaterUpsertWins ==
    ret.op = "upsert" =>
        \A A \in Registered, B \in Registered, p \in GridPositions :
            (A.id = ret.id /\ OnlyCovers(A, B, p) /\ A.z = B.z)
                => CanvasAt(Render(elements, nrows, ncols).canvas, p)
                       = LastCharAt(A, p)

\* C2, amended: of two elements of equal z that are the only ones with a
\* cell at an in-bounds position, render shows the one whose entry comes
\* later in the mapping; the entries stand in the order in which their ids
\* were first upserted (the order uuid4 handed the ids out in this model),
\* and upserting a registered element again leaves its entry in place.
C2_InsertionOrderWins ==
    /\ \A k \in 1..Len(elements), l \in 1..Len(elements) :
          k < l => elements[k][1] < elements[l][1]
    /\ Rendered =>
          \A A \in Registered, B \in Registered, p \in GridPositions :
              (/\ OnlyCovers(A, B, p) /\ A.z = B.z
               /\ KeyPos(elements, A.id) < KeyPos(elements, B.id))
                  => CanvasAt(ret.canvas, p) = LastCharAt(B, p)

\* C2's case: three registered elements, two of them of equal z with
\* different characters at p
C2_Witness ==
    /\ Rendered
    /\ Len(elements) >= 3
    /\ \E A \in Registered, B \in Registered, p \in GridPositions :
          /\ OnlyCovers(A, B, p) /\ A.z = B.z
          /\ LastCharAt(A, p) # LastCharAt(B, p)

\* a cell inside the canvas, by the rows and columns themselves
Inside(cell) == 0 <= cell.x /\ cell.x < nrows /\ 0 <= cell.y /\ cell.y < ncols

AllCells == UNION {{e.cell_list[k] : k \in 1..Len(e.cell_list)} : e \in Registered}

\* the mapping with every cell outside the canvas taken out of the lists
InsideOnly(d) ==
    [k \in 1..Len(d) |->
        <<d[k][1],
          [d[k][2] EXCEPT !.cell_list = SelectSeq(d[k][2].cell_list, Inside)]>>]

\* C3: render does not fail on cells outside the canvas, every character of
\* the grid that is not blank is the character of a cell of a registered
\* element at that very position, and the grid is the one the cells inside
\* the canvas give alone: a cell with row < 0, row >= R, col < 0 or
\* col >= C changes nothing.
C3_Clipping ==
    Rendered =>
        /\ ret.raised = "none"
        /\ \A p \in GridPositions :
              CanvasAt(ret.canvas, p) # BLANK
                  => \E cell \in AllCells :
                        /\ cell.x = p[1] /\ cell.y = p[2]
                        /\ cell.c = CanvasAt(ret.canvas, p)
        /\ ret.canvas = Render(InsideOnly(elements), nrows, ncols).canvas

\* C3's case: a cell of a negative row or column and a cell behind the
\* last row or column are registered, next to a cell that is painted
C3_Witness ==
    /\ Rendered
    /\ \E cell \in AllCells : cell.x < 0 \/ cell.y < 0
    /\ \E cell \in AllCells : cell.x >= nrows \/ cell.y >= ncols
    /\ \E p \in GridPositions : CanvasAt(ret.canvas, p) # BLANK

\* C4: render returns nrows rows of ncols single characters each, whatever
\* was upserted.
C4_GridSize ==
    Rendered =>
        /\ ret.raised = "none"
        /\ Len(ret.canvas) = nrows
        /\ \A i \in 1..Len(ret.canvas) :
              /\ Len(ret.canvas[i]) = ncols
              /\ \A j \in 1..Len(ret.canvas[i]) :
                    ret.canvas[i][j] \in Chars \cup {BLANK}

\* C4's case: a canvas with more columns than rows, rendered with cells
\* outside of it registered
C4_Witness ==
    /\ Rendered
    /\ nrows < ncols
    /\ Len(elements) >= 2
    /\ \E cell \in AllCells : ~Inside(cell)

\* C5 as stated: remove of a registered element succeeds and deletes the
\* entry of its id, so that get_element no longer finds it.
C5_RemoveDeletesEntry ==
    (ret.op = "remove" /\ ret.present) =>
        /\ ret.raised = "none"
        /\ ret.id \notin Keys(elements)
        /\ get_element(elements, ret.id) = <<>>

\* C6 as stated: remove of an element that was never inserted returns a
\* "not found" indication and raises nothing.
C6_RemoveUnknownReported ==
    (ret.op = "remove" /\ ~ret.present) =>
        /\ ret.raised = "none"
        /\ ret.returned = "not found"

-----------------------------------------------------------------------------
(* CanvasElement.merge *)

\* a merge that keeps the second element's z
merge_second_z(element1, element2, id) ==
    CanvasElement(id, element2.z, element1.cell_list \o element2.cell_list)

\* CanvasElement.merge, the id being the one uuid4 hands out
merge(element1, element2, id) ==
    CanvasElement(id, element1.z, element1.cell_list \o element2.cell_list)

InitMerge ==
    /\ CanvasInit(Shape[1], Shape[2])
    /\ heap = <<>>
    /\ box = Idle /\ tree = Idle

\* CanvasElement(z, cell_list)
NewElement(z, cell_list) ==
    /\ Len(heap) < MaxHeap
    /\ heap' = Append(heap, CanvasElement(nextId, z, cell_list))
    /\ nextId' = nextId + 1
    /\ ret' = [op |-> "new", raised |-> "none"]
    /\ UNCHANGED <<nrows, ncols, elements, box, tree>>

\* CanvasElement.merge(heap[i], heap[j]); ret keeps the objects as they
\* were when the call was made
Merge(i, j) ==
    /\ Len(heap) < MaxHeap
    /\ heap' = Append(heap, merge(heap[i], heap[j], nextId))
    /\ nextId' = nextId + 1
    /\ ret' = [op |-> "merge", raised |-> "none", i |-> i, j |-> j,
               before |-> heap]
    /\ UNCHANGED <<nrows, ncols, elements, box, tree>>

NextMerge ==
    \/ \E z \in ZValues, cl \in SeqsUpTo(Cells, MaxCells) : NewElement(z, cl)
    \/ \E i \in 1..Len(heap), j \in 1..Len(heap) : Merge(i, j)

SpecMerge == InitMerge /\ [][NextMerge]_vars

\* C7: merge(A, B) returns a new element of a fresh id whose z is A.z and
\* whose cells are A's cells followed by B's, len(A.cells) + len(B.cells)
\* of them, and leaves every element there was, A and B among them, as it
\* was.
C7_Merge ==
    ret.op = "merge" =>
        LET A == ret.before[ret.i]
            B == ret.before[ret.j]
            merged == heap[Len(heap)]
        IN  /\ Len(heap) = Len(ret.before) + 1
            /\ \A k \in 1..Len(ret.before) :
                  heap[k] = ret.before[k] /\ heap[k].id # merged.id
            /\ merged.z = A.z
            /\ Len(merged.cell_list) = Len(A.cell_list) + Len(B.cell_list)
            /\ \A k \in 1..Len(A.cell_list) : merged.cell_list[k] = A.cell_list[k]
            /\ \A k \in 1..Len(B.cell_list) :
                  merged.cell_list[Len(A.cell_list) + k] = B.cell_list[k]

\* C7's case: two different elements of different z and different cells
\* were merged
C7_Witness ==
    /\ ret.op = "merge"
    /\ ret.i # ret.j
    /\ heap[ret.i].z # heap[ret.j].z
    /\ heap[ret.i].cell_list # <<>>
    /\ heap[ret.j].cell_list # <<>>
    /\ heap[ret.i].cell_list # heap[ret.j].cell_list

-----------------------------------------------------------------------------
(* Box *)

TOP_LEFT_CORNER == "top left corner"
TOP_RIGHT_CORNER == "top right corner"
BOTTOM_LEFT_CORNER == "bottom left corner"
BOTTOM_RIGHT_CORNER == "bottom right corner"
HORIZONTAL_EDGE == "horizontal edge"
VERTICAL_EDGE == "vertical edge"

\* list(range(a, b))
Range(a, b) == [k \in 1..(b - a) |-> a + k - 1]

RECURSIVE Flatten(_)
Flatten(lists) ==
    IF lists = <<>> THEN <<>> ELSE lists[1] \o Flatten(Tail(lists))

\* a range that starts on the corner itself
BetweenFromStart(start, end) == Range(start, end)

\* range(self.start_row + 1, self.end_row), range(self.start_col + 1,
\* self.end_col): the rows or columns strictly between two corners
Between(start, end) == Range(start + 1, end)

\* Box._build
BoxBuild(start_row, end_row, start_col, end_col, filled) ==
    LET rows == Between(start_row, end_row)
        cols == Between(start_col, end_col)
        interior ==
            IF filled
            THEN Flatten([i \in 1..Len(rows) |->
                     [j \in 1..Len(cols) |-> Cell(rows[i], cols[j], BLANK)]])
            ELSE <<>>
        top ==
            <<Cell(start_row, start_col, TOP_LEFT_CORNER),
              Cell(start_row, end_col, TOP_RIGHT_CORNER)>>
            \o [j \in 1..Len(cols) |-> Cell(start_row, cols[j], HORIZONTAL_EDGE)]
        bottom ==
            <<Cell(end_row, start_col, BOTTOM_LEFT_CORNER),
              Cell(end_row, end_col, BOTTOM_RIGHT_CORNER)>>
            \o [j \in 1..Len(cols) |-> Cell(end_row, cols[j], HORIZONTAL_EDGE)]
        sides ==
            Flatten([i \in 1..Len(rows) |->
                <<Cell(rows[i], start_col, VERTICAL_EDGE),
                  Cell(rows[i], end_col, VERTICAL_EDGE)>>])
    IN  interior \o top \o bottom \o sides

\* Box.__init__ up to the call of _build
InitBox ==
    /\ CanvasInit(Shape[1], Shape[2])
    /\ heap = Idle /\ tree = Idle
    /\ \E start_row \in 0..MaxBox, end_row \in 0..MaxBox,
          start_col \in 0..MaxBox, end_col \in 0..MaxBox, filled \in BOOLEAN :
          box = [start_row |-> start_row, end_row |-> end_row,
                 start_col |-> start_col, end_col |-> end_col,
                 filled |-> filled, built |-> FALSE, cell_list |-> <<>>]

\* self.cell_list = self._build()
BuildBox ==
    /\ ~box.built
    /\ box' = [box EXCEPT
                  !.cell_list = BoxBuild(box.start_row, box.end_row,
                                         box.start_col, box.end_col, box.filled),
                  !.built = TRUE]
    /\ UNCHANGED <<nrows, ncols, elements, nextId, ret, heap, tree>>

NextBox == BuildBox

SpecBox == InitBox /\ [][NextBox]_vars

\* the cells of a list with the character c
WithChar(cell_list, c) == {k \in 1..Len(cell_list) : cell_list[k].c = c}

\* the cell_list holds every position of S once, with the character c,
\* and no other cell of that character
ExactlyAt(cell_list, c, S) ==
    /\ Cardinality(WithChar(cell_list, c)) = Cardinality(S)
    /\ \A p \in S : \E k \in WithChar(cell_list, c) :
          cell_list[k].x = p[1] /\ cell_list[k].y = p[2]

IsBox0404 ==
    /\ box.built
    /\ box.start_row = 0 /\ box.end_row = 4
    /\ box.start_col = 0 /\ box.end_col = 4

\* C8 as stated: Box(0,4,0,4,filled=false) is 12 cells, the 4 corners,
\* 2+2 horizontal and 2+2 vertical edge cells, and filled=true adds the 9
\* interior blanks.
C8_TwelveCells ==
    IsBox0404 =>
        /\ Len(box.cell_list) = IF box.filled THEN 12 + 9 ELSE 12
        /\ Cardinality(WithChar(box.cell_list, HORIZONTAL_EDGE)) = 2 + 2
        /\ Cardinality(WithChar(box.cell_list, VERTICAL_EDGE)) = 2 + 2

\* C8, amended: Box(0,4,0,4,filled=false) is 16 cells: the 4 corners, 3+3
\* horizontal edge cells in the columns 1..3 of the top and bottom row and
\* 3+3 vertical edge cells in the rows 1..3 of the left and right column,
\* and no interior cell; filled=true has those and the 3*3 = 9 interior
\* blanks, 25 cells.
C8_SixteenCells ==
    IsBox0404 =>
        /\ Len(box.cell_list) = IF box.filled THEN 16 + 9 ELSE 16
        /\ ExactlyAt(box.cell_list, TOP_LEFT_CORNER, {<<0, 0>>})
        /\ ExactlyAt(box.cell_list, TOP_RIGHT_CORNER, {<<0, 4>>})
        /\ ExactlyAt(box.cell_list, BOTTOM_LEFT_CORNER, {<<4, 0>>})
        /\ ExactlyAt(box.cell_list, BOTTOM_RIGHT_CORNER, {<<4, 4>>})
        /\ ExactlyAt(box.cell_list, HORIZONTAL_EDGE, {0, 4} \X (1..3))
        /\ ExactlyAt(box.cell_list, VERTICAL_EDGE, (1..3) \X {0, 4})
        /\ ExactlyAt(box.cell_list, BLANK,
                     IF box.filled THEN (1..3) \X (1..3) ELSE {})

\* C8's case: the filled Box(0,4,0,4) has been built
C8_Witness == IsBox0404 /\ box.filled /\ Len(box.cell_list) > 0

-----------------------------------------------------------------------------
(* XmasTree *)

STAR == "star"
LEAF == "*"
ORNAMENT == "O"

\* the n of self._add_ornaments(n) in XmasTree.__init__
NumOrnaments == 9

\* leaf rows through the row of index height
LeafRowsThroughHeight(height) == Range(1, height + 1)

\* range(1, self.height): the i of the leaf rows
LeafRows(height) == Range(1, height)

\* XmasTree._build
TreeBuild(start_row, start_col, height, width) ==
    LET mid == width \div 2
        rows == LeafRows(height)
        leaves ==
            Flatten([r \in 1..Len(rows) |->
                LET i == rows[r]
                    cols == Range(mid - i, mid + i + 1)
                IN  [c \in 1..Len(cols) |->
                        Cell(start_row + i, start_col + cols[c], LEAF)]])
        third == height \div 3
        trunk_width == IF third % 2 = 1 THEN third ELSE third + 1
        trunk_height == height \div 4
        trunk_start == width \div 2 - trunk_width \div 2
        trunk_rows == Range(height, height + trunk_height)
        trunk_cols == Range(trunk_start, trunk_start + trunk_width)
        trunk ==
            Flatten([r \in 1..Len(trunk_rows) |->
                [c \in 1..Len(trunk_cols) |->
                    Cell(start_row + trunk_rows[r], start_col + trunk_cols[c], LEAF)]])
    IN  <<Cell(start_row, start_col + width \div 2, STAR)>> \o leaves \o trunk

\* XmasTree.__init__ up to the call of _build
TreeInit(start_row, start_col, height) ==
    tree = [start_row |-> start_row, start_col |-> start_col,
            height |-> height, width |-> 2 * height - 1,
            cell_list |-> <<>>, pc |-> "init", todo |-> 0, raised |-> "none"]

\* self.cell_list = self._build(), and the call self._add_ornaments(9)
\* with its loop counter set up
BuildTree ==
    /\ tree.pc = "init"
    /\ tree' = [tree EXCEPT
                   !.cell_list = TreeBuild(tree.start_row, tree.start_col,
                                           tree.height, tree.width),
                   !.pc = "ornaments",
                   !.todo = NumOrnaments]
    /\ UNCHANGED <<nrows, ncols, elements, nextId, ret, heap, box>>

\* the values random.randint(1, num_cell - 1) may return
RandomIndices == 1..(Len(tree.cell_list) - 1)

\* random.randint(1, num_cell - 1) on an empty range
OrnamentEmptyRange ==
    /\ tree.pc = "ornaments" /\ tree.todo > 0
    /\ RandomIndices = {}
    /\ tree' = [tree EXCEPT !.pc = "raised", !.raised = "ValueError"]
    /\ UNCHANGED <<nrows, ncols, elements, nextId, ret, heap, box>>

\* a pass of `while True` whose cell is a leaf: it is retagged and the
\* loop left
OrnamentHit(i) ==
    /\ tree.pc = "ornaments" /\ tree.todo > 0
    /\ tree.cell_list[i + 1].c = LEAF
    /\ tree' = [tree EXCEPT !.cell_list[i + 1].c = ORNAMENT,
                            !.todo = tree.todo - 1]
    /\ UNCHANGED <<nrows, ncols, elements, nextId, ret, heap, box>>

\* a pass of `while True` whose cell is no leaf: nothing changes and the
\* loop draws again
OrnamentMiss(i) ==
    /\ tree.pc = "ornaments" /\ tree.todo > 0
    /\ tree.cell_list[i + 1].c # LEAF
    /\ UNCHANGED vars

\* `for _ in range(n)` is through: the constructor returns
OrnamentsDone ==
    /\ tree.pc = "ornaments" /\ tree.todo = 0
    /\ tree' = [tree EXCEPT !.pc = "done"]
    /\ UNCHANGED <<nrows, ncols, elements, nextId, ret, heap, box>>

InitTree ==
    /\ CanvasInit(Shape[1], Shape[2])
    /\ heap = Idle /\ box = Idle
    /\ \E height \in 1..MaxTreeHeight : TreeInit(0, 0, height)

NextTree ==
    \/ BuildTree
    \/ OrnamentEmptyRange
    \/ \E i \in RandomIndices : OrnamentHit(i)
    \/ \E i \in RandomIndices : OrnamentMiss(i)
    \/ OrnamentsDone

SpecTree == InitTree /\ [][NextTree]_vars

\* the positions of a cell_list, in its order
PositionsOf(cell_list) ==
    [k \in 1..Len(cell_list) |-> <<cell_list[k].x, cell_list[k].y>>]

\* C9 as stated: the construction of a tree never loops forever.  While
\* the decoration runs it can make a step that leads on (retag a leaf, stop
\* with an error, or return), and when it has returned, exactly 9 cells that
\* were leaves are ornaments and no cell was added, dropped or moved.
C9_DecorationEnds ==
    /\ tree.pc = "ornaments" =>
          \/ tree.todo = 0
          \/ RandomIndices = {}
          \/ \E i \in RandomIndices : tree.cell_list[i + 1].c = LEAF
    /\ tree.pc = "done" =>
          LET built == TreeBuild(tree.start_row, tree.start_col,
                                 tree.height, tree.width)
          IN  /\ PositionsOf(tree.cell_list) = PositionsOf(built)
              /\ Cardinality({k \in 1..Len(built) :
                      built[k].c = LEAF /\ tree.cell_list[k].c = ORNAMENT})
                    = NumOrnaments
              /\ \A k \in 1..Len(built) :
                    tree.cell_list[k].c # ORNAMENT
                        => tree.cell_list[k].c = built[k].c

\* _build alone, for trees of more heights and places
InitTreeBuild ==
    /\ CanvasInit(Shape[1], Shape[2])
    /\ heap = Idle /\ box = Idle
    /\ \E start_row \in 0..MaxStart, start_col \in 0..MaxStart,
          height \in 1..MaxBuildHeight :
          TreeInit(start_row, start_col, height)

NextTreeBuild == BuildTree

SpecTreeBuild == InitTreeBuild /\ [][NextTreeBuild]_vars

\* the cells of the tree in a row
InRow(row) == {k \in 1..Len(tree.cell_list) : tree.cell_list[k].x = row}

\* the row holds one leaf cell in each of the columns lo..hi and no other
\* cell
LeafRun(row, lo, hi) ==
    /\ Cardinality(InRow(row)) = hi - lo + 1
    /\ \A k \in InRow(row) : tree.cell_list[k].c = LEAF
    /\ \A col \in lo..hi : \E k \in InRow(row) : tree.cell_list[k].y = col

Midpoint == tree.start_col + (2 * tree.height - 1) \div 2

\* the star: one cell, the only one of the first row, on the midpoint
StarAtApex ==
    /\ Cardinality(InRow(tree.start_row)) = 1
    /\ \A k \in InRow(tree.start_row) :
          tree.cell_list[k].c = STAR /\ tree.cell_list[k].y = Midpoint

=============================================================================
